---- MODULE Spec2Model ----
(***************************************************************************)
(* A model of main.py of seq2seq.pytorch: the start-up of a training run   *)
(* (save path, device selection, the three textual configurations, model   *)
(* and trainer construction), the optional restore of a checkpoint and the *)
(* epoch loop.                                                             *)
(*                                                                         *)
(* The control state is the position of main (pc).  The command line is    *)
(* the variable args, fixed by Init.  The collaborators that main only     *)
(* calls (the file system, torch.cuda, the tokenizers, the trainer) are    *)
(* the environment: their answers are chosen with \E where main asks.      *)
(***************************************************************************)
EXTENDS Integers, Sequences, FiniteSets

(***************************************************************************)
(* Python values.  Every value is a record of one shape, so that any two   *)
(* of them can be compared: t is the type, n the number of an int or a     *)
(* bool (and the sign of a float), s the text of a str, a float or a name, *)
(* items the elements of a container.  A dict is a sequence of "pair"      *)
(* values (key, value) in insertion order, its keys distinct.              *)
(***************************************************************************)
Val(t, n, s, items) == [t |-> t, n |-> n, s |-> s, items |-> items]

IntV(n) == Val("int", n, "", <<>>)

FloatV(sign, s) == Val("float", sign, s, <<>>)

StrV(s) == Val("str", 0, s, <<>>)

BoolV(b) == Val("bool", IF b THEN 1 ELSE 0, "", <<>>)

NoneV == Val("None", 0, "", <<>>)

TupleV(items) == Val("tuple", 0, "", items)

ListV(items) == Val("list", 0, "", items)

SetV(items) == Val("set", 0, "", items)

DictV(pairs) == Val("dict", 0, "", pairs)

PairV(k, v) == Val("pair", 0, "", <<k, v>>)

\* Nodes of the syntax tree that are not values: a Name and a unary minus.
NameN(s) == Val("name", 0, s, <<>>)

NegN(x) == Val("neg", 0, "", <<x>>)

\* A local variable of main that has not been assigned.
Unset == Val("unset", 0, "", <<>>)

(***************************************************************************)
(* dict operations                                                         *)
(***************************************************************************)
RECURSIVE IndexOf(_, _, _)
\* The position of key k among the pairs from position i on, 0 when absent.
IndexOf(pairs, k, i) ==
    IF i > Len(pairs) THEN 0
    ELSE IF pairs[i].items[1] = k THEN i
    ELSE IndexOf(pairs, k, i + 1)

HasKey(d, k) == IndexOf(d.items, k, 1) # 0

\* dict.get(k, default)
DictGet(d, k, default) ==
    LET i == IndexOf(d.items, k, 1)
    IN  IF i = 0 THEN default ELSE d.items[i].items[2]

\* d[k] = v: an existing key keeps its place, a new key is appended.
DictSet(d, k, v) ==
    LET i == IndexOf(d.items, k, 1)
    IN  IF i = 0 THEN DictV(Append(d.items, PairV(k, v)))
        ELSE DictV([d.items EXCEPT ![i] = PairV(k, v)])

\* dict.setdefault(k, default)
DictSetDefault(d, k, default) ==
    IF HasKey(d, k) THEN d ELSE DictSet(d, k, default)

DictKeys(d) == {d.items[i].items[1] : i \in 1..Len(d.items)}

(***************************************************************************)
(* The text of an option, as the sequence of its tokens.                   *)
(***************************************************************************)
Tok(k, n, s) == [k |-> k, n |-> n, s |-> s]

TInt(n) == Tok("int", n, "")

TFloat(s) == Tok("float", 0, s)

TStr(s) == Tok("str", 0, s)

TName(s) == Tok("name", 0, s)

TOp(s) == Tok("op", 0, s)

Closers == {TOp(")"), TOp("]"), TOp("}")}

(***************************************************************************)
(* ast.literal_eval, first half: the parse of the text into a syntax tree. *)
(* The grammar is the part of Python's expression grammar that the texts   *)
(* of this model use: numbers, strings, names, unary minus, parentheses,   *)
(* tuples, lists, sets and dicts, each with an optional trailing comma.    *)
(* A parse result is [ok, node, pos]: pos is the first token not read.     *)
(***************************************************************************)
ParseFail == [ok |-> FALSE, node |-> NoneV, pos |-> 0]

ParseOk(node, pos) == [ok |-> TRUE, node |-> node, pos |-> pos]

ItemsFail == [ok |-> FALSE, items |-> <<>>, pos |-> 0, comma |-> FALSE]

ItemsOk(items, pos, comma) ==
    [ok |-> TRUE, items |-> items, pos |-> pos, comma |-> comma]

TokAt(toks, i, tk) == i <= Len(toks) /\ toks[i] = tk

RECURSIVE ParseAtom(_, _)
RECURSIVE ParseItems(_, _)
RECURSIVE ParsePairs(_, _)

\* An element, or a pair, put before the rest of its list.
ItemsJoin(node, rest) ==
    IF rest.ok THEN ItemsOk(<<node>> \o rest.items, rest.pos, TRUE)
    ELSE ItemsFail

\* After the first element r of a list: the end, a trailing comma, or a
\* comma and the rest.
ItemsAfterFirst(toks, r) ==
    IF ~r.ok THEN ItemsFail
    ELSE IF ~TokAt(toks, r.pos, TOp(","))
         THEN ItemsOk(<<r.node>>, r.pos, FALSE)
    ELSE IF r.pos + 1 > Len(toks) \/ toks[r.pos + 1] \in Closers
         THEN ItemsOk(<<r.node>>, r.pos + 1, TRUE)
    ELSE ItemsJoin(r.node, ParseItems(toks, r.pos + 1))

\* test (',' test)* [',']: the elements and whether a comma was read.
ParseItems(toks, i) == ItemsAfterFirst(toks, ParseAtom(toks, i))

\* After the value v of the pair with key key.
PairsAfterValue(toks, key, v) ==
    IF ~v.ok THEN ItemsFail
    ELSE IF ~TokAt(toks, v.pos, TOp(","))
         THEN ItemsOk(<<PairV(key, v.node)>>, v.pos, FALSE)
    ELSE IF v.pos + 1 > Len(toks) \/ toks[v.pos + 1] \in Closers
         THEN ItemsOk(<<PairV(key, v.node)>>, v.pos + 1, TRUE)
    ELSE ItemsJoin(PairV(key, v.node), ParsePairs(toks, v.pos + 1))

\* After the key k of a pair: ':' and the value.
PairsAfterKey(toks, k) ==
    IF ~k.ok \/ ~TokAt(toks, k.pos, TOp(":")) THEN ItemsFail
    ELSE PairsAfterValue(toks, k.node, ParseAtom(toks, k.pos + 1))

\* test ':' test (',' test ':' test)* [',']: the pairs of a dict display.
ParsePairs(toks, i) == PairsAfterKey(toks, ParseAtom(toks, i))

\* The closing ")" after the elements r: a parenthesized expression, or a
\* tuple when a comma was read.
CloseParen(toks, r) ==
    IF ~r.ok \/ ~TokAt(toks, r.pos, TOp(")")) THEN ParseFail
    ELSE ParseOk(IF r.comma THEN TupleV(r.items) ELSE r.items[1], r.pos + 1)

\* The display that opens at token i - 1 with "(".
ParseParen(toks, i) ==
    IF TokAt(toks, i, TOp(")")) THEN ParseOk(TupleV(<<>>), i + 1)
    ELSE CloseParen(toks, ParseItems(toks, i))

\* The closing token after the elements r of a display of type t.
CloseDisplay(toks, t, closer, r) ==
    IF ~r.ok \/ ~TokAt(toks, r.pos, TOp(closer)) THEN ParseFail
    ELSE ParseOk(Val(t, 0, "", r.items), r.pos + 1)

\* The display that opens at token i - 1 with "[".
ParseBracket(toks, i) ==
    IF TokAt(toks, i, TOp("]")) THEN ParseOk(ListV(<<>>), i + 1)
    ELSE CloseDisplay(toks, "list", "]", ParseItems(toks, i))

\* After the first element of a display in braces: a ":" makes it a dict,
\* anything else a set.
BraceAfterFirst(toks, i, first) ==
    IF ~first.ok THEN ParseFail
    ELSE IF TokAt(toks, first.pos, TOp(":"))
         THEN CloseDisplay(toks, "dict", "}", ParsePairs(toks, i))
    ELSE CloseDisplay(toks, "set", "}", ParseItems(toks, i))

\* The display that opens at token i - 1 with "{": {} is the empty dict.
ParseBrace(toks, i) ==
    IF TokAt(toks, i, TOp("}")) THEN ParseOk(DictV(<<>>), i + 1)
    ELSE BraceAfterFirst(toks, i, ParseAtom(toks, i))

\* The operand r of a unary minus.
NegOf(r) == IF r.ok THEN ParseOk(NegN(r.node), r.pos) ELSE ParseFail

\* The atom that starts with the token tk at position i.
AtomAt(toks, i, tk) ==
    CASE tk.k = "int" -> ParseOk(IntV(tk.n), i + 1)
      [] tk.k = "float" -> ParseOk(FloatV(1, tk.s), i + 1)
      [] tk.k = "str" -> ParseOk(StrV(tk.s), i + 1)
      [] tk.k = "name" -> ParseOk(NameN(tk.s), i + 1)
      [] tk = TOp("-") -> NegOf(ParseAtom(toks, i + 1))
      [] tk = TOp("(") -> ParseParen(toks, i + 1)
      [] tk = TOp("[") -> ParseBracket(toks, i + 1)
      [] tk = TOp("{") -> ParseBrace(toks, i + 1)
      [] OTHER -> ParseFail

ParseAtom(toks, i) ==
    IF i > Len(toks) THEN ParseFail ELSE AtomAt(toks, i, toks[i])

\* The whole text must have been read.
WholeText(toks, r) ==
    IF ~r.ok \/ r.pos # Len(toks) + 1 THEN ParseFail
    ELSE ParseOk(IF r.comma THEN TupleV(r.items) ELSE r.items[1], r.pos)

\* ast.parse(text, mode='eval'): the whole text is one expression list.
ParseText(toks) == WholeText(toks, ParseItems(toks, 1))

(***************************************************************************)
(* ast.literal_eval, second half: the conversion of the tree to a value.   *)
(* A result is [err, val]: err is "" or the exception raised.              *)
(***************************************************************************)
EvalOk(v) == [err |-> "", val |-> v]

EvalErr(e) == [err |-> e, val |-> NoneV]

RECURSIVE Hashable(_)
\* hash(v) succeeds: a list, a set or a dict has no hash, a tuple has one
\* when its elements have.
Hashable(v) ==
    CASE v.t \in {"list", "set", "dict"} -> FALSE
      [] v.t = "tuple" -> \A i \in 1..Len(v.items) : Hashable(v.items[i])
      [] OTHER -> TRUE

RECURSIVE Convert(_)
RECURSIVE ConvertAll(_, _)
RECURSIVE ConvertSet(_, _, _)
RECURSIVE ConvertPairs(_, _, _)

\* The converted element r put before the converted rest.
ConsResult(r, rest) ==
    IF r.err # "" THEN EvalErr(r.err)
    ELSE IF rest.err # "" THEN rest
    ELSE EvalOk(<<r.val>> \o rest.val)

\* The elements of a tuple or a list from the i-th on, converted left to
\* right; the first error ends it.
ConvertAll(nodes, i) ==
    IF i > Len(nodes) THEN EvalOk(<<>>)
    ELSE ConsResult(Convert(nodes[i]), ConvertAll(nodes, i + 1))

\* set.add of the converted element r: it must have a hash, and an element
\* already there is not added again.
SetAdd(nodes, i, acc, r) ==
    IF r.err # "" THEN EvalErr(r.err)
    ELSE IF ~Hashable(r.val) THEN EvalErr("TypeError")
    ELSE ConvertSet(nodes, i + 1,
                    IF \E j \in 1..Len(acc) : acc[j] = r.val THEN acc
                    ELSE Append(acc, r.val))

\* set(map(_convert, elts)): each element is converted, then added.
ConvertSet(nodes, i, acc) ==
    IF i > Len(nodes) THEN EvalOk(acc)
    ELSE SetAdd(nodes, i, acc, Convert(nodes[i]))

\* The insertion of the converted pair (k, v): the key must have a hash; a
\* repeated key keeps its first place and takes the last value.
PairInto(pairs, i, acc, k, v) ==
    IF k.err # "" THEN EvalErr(k.err)
    ELSE IF v.err # "" THEN EvalErr(v.err)
    ELSE IF ~Hashable(k.val) THEN EvalErr("TypeError")
    ELSE ConvertPairs(pairs, i + 1, DictSet(acc, k.val, v.val))

\* dict(zip(map(_convert, keys), map(_convert, values))): pair after pair,
\* the key is converted, then the value, then the pair is inserted.
ConvertPairs(pairs, i, acc) ==
    IF i > Len(pairs) THEN EvalOk(acc)
    ELSE PairInto(pairs, i, acc, Convert(pairs[i].items[1]),
                  Convert(pairs[i].items[2]))

\* The container of type t of the converted elements r.
Container(t, r) ==
    IF r.err # "" THEN EvalErr(r.err) ELSE EvalOk(Val(t, 0, "", r.val))

\* _convert(node): constants, the names True, False and None, a minus
\* before a number, and the four displays; anything else is refused.
Convert(node) ==
    CASE node.t \in {"int", "float", "str"} -> EvalOk(node)
      [] node.t = "name" ->
           CASE node.s = "True" -> EvalOk(BoolV(TRUE))
             [] node.s = "False" -> EvalOk(BoolV(FALSE))
             [] node.s = "None" -> EvalOk(NoneV)
             [] OTHER -> EvalErr("ValueError")
      [] node.t = "neg" ->
           CASE node.items[1].t = "int" -> EvalOk(IntV(-node.items[1].n))
             [] node.items[1].t = "float" ->
                  EvalOk(FloatV(-node.items[1].n, node.items[1].s))
             [] OTHER -> EvalErr("ValueError")
      [] node.t \in {"tuple", "list"} ->
           Container(node.t, ConvertAll(node.items, 1))
      [] node.t = "set" -> Container("set", ConvertSet(node.items, 1, <<>>))
      [] node.t = "dict" ->
           ConvertPairs(node.items, 1, DictV(<<>>))
      [] OTHER -> EvalErr("ValueError")

\* The value of the parsed text p.
EvalParsed(p) == IF ~p.ok THEN EvalErr("SyntaxError") ELSE Convert(p.node)

\* literal_eval(text)
literal_eval(toks) == EvalParsed(ParseText(toks))

(***************************************************************************)
(* Python semantics main relies on.                                        *)
(***************************************************************************)
\* bool(v) of an option value: None and the empty string are false.
Truthy(v) == ~(v.t = "None" \/ (v.t = "str" /\ v.s = ""))

\* isinstance(v, int): a bool is an int.
IsInt(v) == v.t \in {"int", "bool"}

\* f(**v) binds keyword arguments: v is a mapping whose keys are strings,
\* anything else raises TypeError before f is entered.
KeywordsOk(v) ==
    v.t = "dict" /\ \A i \in 1..Len(v.items) : v.items[i].items[1].t = "str"

\* A path is the sequence of its components; os.path.join(p, name).
PathOf(v) == <<v.s>>

Join(p, name) == Append(p, name)

BestName == "model_best.pth.tar"

(***************************************************************************)
(* The bounds of the model.                                                *)
(***************************************************************************)
\* --epochs, --start-epoch and a checkpoint's epoch range over 0..MaxEpochs.
MaxEpochs == 3

\* A tokenizer's vocabulary size ranges over 1..MaxVocab.
MaxVocab == 2

VARIABLES
    args,          \* the parsed command line (argparse's Namespace)
    env,           \* what the collaborators answer: file system, checkpoint,
                   \* tokenizers, cuda
    pc,            \* the position of main
    error,         \* the exception that ended main: [at, exc], exc "" if none
    results_dir,   \* args.results_dir
    devices,       \* args.devices after literal_eval
    main_gpu,      \* the local main_gpu, Unset while it is not assigned
    data_config,   \* args.data_config after literal_eval
    regime,        \* the local regime
    model_config,  \* the local model_config
    model_kwargs,  \* the mapping the model constructor received
    trainer,       \* the trainer: [built, epoch, regime, devices]
    calls          \* the calls main has made on its collaborators, in order

vars == <<args, env, pc, error, results_dir, devices, main_gpu, data_config,
          regime, model_config, model_kwargs, trainer, calls>>

Call(op, path, n) == [op |-> op, path |-> path, n |-> n]

NoError == [at |-> "", exc |-> ""]

\* An uncaught exception ends main where it is raised.
Raise(exc) ==
    /\ pc' = "aborted"
    /\ error' = [at |-> pc, exc |-> exc]

Goto(next) ==
    /\ pc' = next
    /\ error' = error

(***************************************************************************)
(* main, lines 85-99: the save path.  --evaluate moves the results to      *)
(* /tmp; the directory is then made and the log opened in it, which        *)
(* nothing below reads.                                                    *)
(***************************************************************************)
SetupSavePath ==
    /\ pc = "save_path"
    /\ results_dir' = IF Truthy(args.evaluate) THEN "/tmp" ELSE args.results_dir
    /\ Goto("cuda")
    /\ UNCHANGED <<args, env, devices, main_gpu, data_config, regime,
                   model_config, model_kwargs, trainer, calls>>

(***************************************************************************)
(* main, lines 101-112: the devices.                                       *)
(***************************************************************************)
\* MainGpu with the last element of a tuple taken for the first.
MainGpuLast(d) ==
    CASE d.t = "tuple" ->
           IF Len(d.items) = 0 THEN EvalErr("IndexError")
           ELSE EvalOk(d.items[Len(d.items)])
      [] IsInt(d) -> EvalOk(d)
      [] d.t = "dict" -> EvalOk(DictGet(d, StrV("input"), IntV(0)))
      [] OTHER -> EvalOk(IntV(0))

\* Lines 104-110: [err, val], the value of main_gpu for the evaluated
\* device specification d.
MainGpu(d) ==
    CASE d.t = "tuple" ->
           IF Len(d.items) = 0 THEN EvalErr("IndexError")
           ELSE EvalOk(d.items[1])
      [] IsInt(d) -> EvalOk(d)
      [] d.t = "dict" -> EvalOk(DictGet(d, StrV("input"), IntV(0)))
      [] OTHER -> EvalOk(IntV(0))

\* torch.cuda.set_device(g): "" or the exception.  A negative index is
\* ignored, an index that is no integer is refused, and whether a device
\* of index g exists is the machine's answer.
SetDevice(g) ==
    IF ~IsInt(g) THEN "TypeError"
    ELSE IF g.n < 0 \/ env.cuda_ok THEN ""
    ELSE "RuntimeError"

SetupCuda ==
    /\ pc = "cuda"
    /\ LET r == literal_eval(args.devices)
           g == MainGpu(r.val)
       IN  IF r.err # ""
           THEN /\ Raise(r.err)
                /\ UNCHANGED <<devices, main_gpu, calls>>
           ELSE /\ devices' = r.val
                /\ IF ~args.type_cuda
                   THEN /\ Goto("dataset")
                        /\ UNCHANGED <<main_gpu, calls>>
                   ELSE IF g.err # ""
                   THEN /\ Raise(g.err)
                        /\ UNCHANGED <<main_gpu, calls>>
                   ELSE /\ main_gpu' = g.val
                        /\ calls' = Append(calls, Call("set_device", <<>>, 0))
                        /\ IF SetDevice(g.val) # ""
                           THEN Raise(SetDevice(g.val))
                           ELSE Goto("dataset")
    /\ UNCHANGED <<args, env, results_dir, data_config, regime, model_config,
                   model_kwargs, trainer>>

(***************************************************************************)
(* main, lines 113-118: the dataset and its tokenizers.                    *)
(***************************************************************************)
SetDataset ==
    /\ pc = "dataset"
    /\ LET r == literal_eval(args.data_config)
       IN  IF r.err # ""
           THEN /\ Raise(r.err)
                /\ UNCHANGED <<data_config, calls>>
           ELSE /\ data_config' = r.val
                /\ IF ~KeywordsOk(r.val)
                   THEN /\ Raise("TypeError")
                        /\ UNCHANGED calls
                   ELSE /\ calls' = Append(calls, Call("dataset", <<>>, 0))
                        /\ Goto("config")
    /\ UNCHANGED <<args, env, results_dir, devices, main_gpu, regime,
                   model_config, model_kwargs, trainer>>

(***************************************************************************)
(* main, lines 120-129: the regime and the model configuration.            *)
(***************************************************************************)
\* ResolveModelConfig with the source vocabulary size written to the decoder.
ResolveModelConfigSrc(mc, tok) ==
    IF mc.t # "dict" THEN EvalErr("AttributeError")
    ELSE
    LET m1 == DictSetDefault(mc, StrV("encoder"), DictV(<<>>))
        m2 == DictSetDefault(m1, StrV("decoder"), DictV(<<>>))
        enc == DictGet(m2, StrV("encoder"), NoneV)
        m3 == IF tok.src_has_vocab
              THEN DictSet(m2, StrV("encoder"),
                           DictSet(enc, StrV("vocab_size"), IntV(tok.src_vocab)))
              ELSE m2
        dec == DictGet(m3, StrV("decoder"), NoneV)
        m4 == DictSet(m3, StrV("decoder"),
                      DictSet(dec, StrV("vocab_size"), IntV(tok.src_vocab)))
        m5 == DictSet(m4, StrV("vocab_size"),
                      DictGet(DictGet(m4, StrV("decoder"), NoneV),
                              StrV("vocab_size"), NoneV))
    IN  IF tok.src_has_vocab /\ enc.t # "dict" THEN EvalErr("TypeError")
        ELSE IF dec.t # "dict" THEN EvalErr("TypeError")
        ELSE EvalOk(m5)

\* Lines 123-128: [err, val], the model configuration made of the evaluated
\* text mc and the tokenizers tok.
ResolveModelConfig(mc, tok) ==
    IF mc.t # "dict" THEN EvalErr("AttributeError")
    ELSE
    LET m1 == DictSetDefault(mc, StrV("encoder"), DictV(<<>>))
        m2 == DictSetDefault(m1, StrV("decoder"), DictV(<<>>))
        enc == DictGet(m2, StrV("encoder"), NoneV)
        m3 == IF tok.src_has_vocab
              THEN DictSet(m2, StrV("encoder"),
                           DictSet(enc, StrV("vocab_size"), IntV(tok.src_vocab)))
              ELSE m2
        dec == DictGet(m3, StrV("decoder"), NoneV)
        m4 == DictSet(m3, StrV("decoder"),
                      DictSet(dec, StrV("vocab_size"), IntV(tok.target_vocab)))
        m5 == DictSet(m4, StrV("vocab_size"),
                      DictGet(DictGet(m4, StrV("decoder"), NoneV),
                              StrV("vocab_size"), NoneV))
    IN  IF tok.src_has_vocab /\ enc.t # "dict" THEN EvalErr("TypeError")
        ELSE IF dec.t # "dict" THEN EvalErr("TypeError")
        ELSE EvalOk(m5)

ResolveConfig ==
    /\ pc = "config"
    /\ LET r == literal_eval(args.optimization_config)
           m == literal_eval(args.model_config)
           c == ResolveModelConfig(m.val, env.tok)
       IN  IF r.err # ""
           THEN /\ Raise(r.err)
                /\ UNCHANGED <<regime, model_config>>
           ELSE /\ regime' = r.val
                /\ IF m.err # ""
                   THEN /\ Raise(m.err)
                        /\ UNCHANGED model_config
                   ELSE IF c.err # ""
                   THEN /\ Raise(c.err)
                        /\ UNCHANGED model_config
                   ELSE /\ model_config' = c.val
                        /\ Goto("model")
    /\ UNCHANGED <<args, env, results_dir, devices, main_gpu, data_config,
                   model_kwargs, trainer, calls>>

(***************************************************************************)
(* main, lines 131-148: the model and the loaders.                         *)
(***************************************************************************)
BuildModel ==
    /\ pc = "model"
    /\ IF ~KeywordsOk(model_config)
       THEN /\ Raise("TypeError")
            /\ UNCHANGED <<model_kwargs, calls>>
       ELSE /\ model_kwargs' = model_config
            /\ calls' = Append(calls, Call("model", <<>>, 0))
            /\ Goto("trainer")
    /\ UNCHANGED <<args, env, results_dir, devices, main_gpu, data_config,
                   regime, model_config, trainer>>

(***************************************************************************)
(* main, lines 150-165: the trainer.                                       *)
(***************************************************************************)
BuildTrainer ==
    /\ pc = "trainer"
    /\ trainer' = [built |-> TRUE, epoch |-> 0, regime |-> regime,
                   devices |-> devices]
    /\ calls' = Append(calls, Call("trainer", <<>>, 0))
    /\ Goto("init_weights")
    /\ UNCHANGED <<args, env, results_dir, devices, main_gpu, data_config,
                   regime, model_config, model_kwargs>>

(***************************************************************************)
(* main, lines 167-170: the tensor type and the optional uniform           *)
(* re-initialization of the weights.                                       *)
(***************************************************************************)
InitWeights ==
    /\ pc = "init_weights"
    /\ calls' = IF args.uniform_init
                THEN Append(calls, Call("uniform_", <<>>, 0))
                ELSE calls
    /\ Goto("resume")
    /\ UNCHANGED <<args, env, results_dir, devices, main_gpu, data_config,
                   regime, model_config, model_kwargs, trainer>>

(***************************************************************************)
(* main, lines 172-184: the optional restore of a checkpoint.              *)
(***************************************************************************)
\* os.path.isdir(p) and os.path.isfile(p), as the file system answers for
\* the --resume path and for the best checkpoint below it.
IsDir(p) == p = PathOf(args.resume) /\ env.fs.kind = "dir"

IsFile(p) ==
    \/ p = PathOf(args.resume) /\ env.fs.kind = "file"
    \/ p = Join(PathOf(args.resume), BestName) /\ env.fs.kind = "dir" /\ env.fs.best

\* Line 178, results.load(...): main.py binds no name results, at module
\* level or in main, so the lookup of the name raises before the call.
ResultsLoad(p) == "NameError"

\* trainer.load(path): [err, epoch].  The trainer restores the checkpoint's
\* state, its epoch with it, or raises when the file cannot be read.
TrainerLoad(p) ==
    IF env.load_ok THEN [err |-> "", epoch |-> env.ckpt_epoch]
    ELSE [err |-> "IOError", epoch |-> -1]

\* What a part of the block did: the calls it made, the exception that
\* ended it ("" if none) and the epoch a load restored (-1 if none did).
Plan(cs, err, epoch) == [calls |-> cs, err |-> err, epoch |-> epoch]

\* Line 174 or 182: trainer.load(p) after the calls cs.
LoadPlan(cs, p) ==
    LET l == TrainerLoad(p)
    IN  Plan(cs \o <<Call("load", p, 0)>>, l.err, l.epoch)

\* Lines 176-184: the --resume branch.
ResumeFile ==
    LET p0 == PathOf(args.resume)
        c1 == <<Call("isdir", p0, 0)>>
        p1 == IF IsDir(p0) THEN Join(p0, BestName) ELSE p0
        c2 == c1 \o <<Call("isfile", p1, 0)>>
    IN  IF IsDir(p0) /\ ResultsLoad(Join(p0, "results.csv")) # ""
        THEN Plan(c1, ResultsLoad(Join(p0, "results.csv")), -1)
        ELSE IF IsFile(p1) THEN LoadPlan(c2, p1)
        ELSE Plan(c2 \o <<Call("log.error", p0, 0)>>, "", -1)

\* One part of the block after another.
ThenPlan(a, b) ==
    IF a.err # "" THEN a
    ELSE Plan(a.calls \o b.calls, b.err, IF b.epoch >= 0 THEN b.epoch ELSE a.epoch)

\* ResumePlan with "if args.resume" for "elif args.resume".
ResumePlanIf ==
    IF Truthy(args.evaluate) /\ Truthy(args.resume)
    THEN ThenPlan(LoadPlan(<<>>, PathOf(args.evaluate)), ResumeFile)
    ELSE IF Truthy(args.evaluate) THEN LoadPlan(<<>>, PathOf(args.evaluate))
    ELSE IF Truthy(args.resume) THEN ResumeFile
    ELSE Plan(<<>>, "", -1)

\* Lines 173-184: if args.evaluate ... elif args.resume ...
ResumePlan ==
    IF Truthy(args.evaluate) THEN LoadPlan(<<>>, PathOf(args.evaluate))
    ELSE IF Truthy(args.resume) THEN ResumeFile
    ELSE Plan(<<>>, "", -1)

OptionallyResume ==
    /\ pc = "resume"
    /\ LET plan == ResumePlan
       IN  /\ calls' = calls \o plan.calls
           /\ IF plan.err # ""
              THEN /\ Raise(plan.err)
                   /\ UNCHANGED trainer
              ELSE /\ trainer' = IF plan.epoch >= 0
                                 THEN [trainer EXCEPT !.epoch = plan.epoch]
                                 ELSE trainer
                   /\ Goto("start_epoch")
    /\ UNCHANGED <<args, env, results_dir, devices, main_gpu, data_config,
                   regime, model_config, model_kwargs>>

(***************************************************************************)
(* main, lines 186-191: the start epoch and the epoch loop.                *)
(***************************************************************************)
SetStartEpoch ==
    /\ pc = "start_epoch"
    /\ trainer' = [trainer EXCEPT !.epoch = args.start_epoch]
    /\ Goto("loop")
    /\ UNCHANGED <<args, env, results_dir, devices, main_gpu, data_config,
                   regime, model_config, model_kwargs, calls>>

\* LoopCond with <= for <.
LoopCondLe(epoch, epochs) == epoch <= epochs

\* Line 189: the condition of the while loop.
LoopCond(epoch, epochs) == epoch < epochs

\* trainer.run(train_loader, val_loader): the epoch after one call, which
\* trains for one epoch and advances the trainer's epoch by one.
TrainerRun(epoch) == epoch + 1

RunEpoch ==
    /\ pc = "loop"
    /\ LoopCond(trainer.epoch, args.epochs)
    /\ calls' = Append(calls, Call("run", <<>>, trainer.epoch))
    /\ trainer' = [trainer EXCEPT !.epoch = TrainerRun(trainer.epoch)]
    /\ Goto("loop")
    /\ UNCHANGED <<args, env, results_dir, devices, main_gpu, data_config,
                   regime, model_config, model_kwargs>>

Finish ==
    /\ pc = "loop"
    /\ ~LoopCond(trainer.epoch, args.epochs)
    /\ Goto("done")
    /\ UNCHANGED <<args, env, results_dir, devices, main_gpu, data_config,
                   regime, model_config, model_kwargs, trainer, calls>>

Next ==
    \/ SetupSavePath
    \/ SetupCuda
    \/ SetDataset
    \/ ResolveConfig
    \/ BuildModel
    \/ BuildTrainer
    \/ InitWeights
    \/ OptionallyResume
    \/ SetStartEpoch
    \/ RunEpoch
    \/ Finish

(***************************************************************************)
(* The texts of the options, as token sequences.                           *)
(***************************************************************************)
Comma == TOp(",")

Colon == TOp(":")

\* { k : v }
Braced(body) == <<TOp("{")>> \o body \o <<TOp("}")>>

Entry(k, v) == <<TStr(k), Colon>> \o v

\* --devices: 0 | 1 | 0,1 | 1,0 | (1,0) | {'input':1} |
\* {'encoder':0,'decoder':1} | () | 'a' | 1.5 | -1 | [1,0] | ('a',) |
\* {'input':'a'} | True | cuda0 | (0
DeviceTexts ==
    { <<TInt(0)>>,
      <<TInt(1)>>,
      <<TInt(0), Comma, TInt(1)>>,
      <<TInt(1), Comma, TInt(0)>>,
      <<TOp("("), TInt(1), Comma, TInt(0), TOp(")")>>,
      Braced(Entry("input", <<TInt(1)>>)),
      Braced(Entry("encoder", <<TInt(0)>>) \o <<Comma>>
             \o Entry("decoder", <<TInt(1)>>)),
      <<TOp("("), TOp(")")>>,
      <<TStr("a")>>,
      <<TFloat("1.5")>>,
      <<TOp("-"), TInt(1)>>,
      <<TOp("["), TInt(1), Comma, TInt(0), TOp("]")>>,
      <<TOp("("), TStr("a"), Comma, TOp(")")>>,
      Braced(Entry("input", <<TStr("a")>>)),
      <<TName("True")>>,
      <<TName("cuda0")>>,
      <<TOp("("), TInt(0)>> }

\* The default of --devices, line 41: '0'.
DevicesDefault == <<TInt(0)>>

\* The default of --data_config, line 28.
DataDefault ==
    Braced(Entry("tokenization", <<TStr("bpe")>>) \o <<Comma>>
           \o Entry("num_symbols", <<TInt(32000)>>) \o <<Comma>>
           \o Entry("shared_vocab", <<TName("True")>>))

\* --data_config: the default | {} | 5 | ['bpe'] | 'bpe' | {0:'bpe'} |
\* {'tokenization':bpe} | {'tokenization':
DataTexts ==
    { DataDefault,
      Braced(<<>>),
      <<TInt(5)>>,
      <<TOp("["), TStr("bpe"), TOp("]")>>,
      <<TStr("bpe")>>,
      Braced(<<TInt(0), Colon, TStr("bpe")>>),
      Braced(Entry("tokenization", <<TName("bpe")>>)),
      <<TOp("{"), TStr("tokenization"), Colon>> }

\* The default of --model_config, line 39: the quote after hidden_size is
\* missing, so the first element is the string 'hidden_size:256'.
ModelDefault ==
    Braced(<<TStr("hidden_size:256"), Comma, TStr("num_layers"), Colon, TInt(2)>>)

\* {'hidden_size':256,'num_layers':2}
ModelPlain ==
    Braced(Entry("hidden_size", <<TInt(256)>>) \o <<Comma>>
           \o Entry("num_layers", <<TInt(2)>>))

\* {'encoder':{'vocab_size':7,'a':1},'decoder':{'vocab_size':7,'b':2},
\*  'vocab_size':9,'c':3}
ModelFull ==
    Braced(Entry("encoder", Braced(Entry("vocab_size", <<TInt(7)>>) \o <<Comma>>
                                   \o Entry("a", <<TInt(1)>>)))
           \o <<Comma>>
           \o Entry("decoder", Braced(Entry("vocab_size", <<TInt(7)>>) \o <<Comma>>
                                      \o Entry("b", <<TInt(2)>>)))
           \o <<Comma>> \o Entry("vocab_size", <<TInt(9)>>)
           \o <<Comma>> \o Entry("c", <<TInt(3)>>))

\* --model_config: the default | {'hidden_size':256,'num_layers':2} | {} |
\* the full one | {'encoder':{'a':1}} | {'decoder':{},'c':3} | {'encoder':5} |
\* {'decoder':[1]} | {0:1} | 5 | [1] | {'a','b'} | {'c':Linear}
ModelTexts ==
    { ModelDefault,
      ModelPlain,
      Braced(<<>>),
      ModelFull,
      Braced(Entry("encoder", Braced(Entry("a", <<TInt(1)>>)))),
      Braced(Entry("decoder", Braced(<<>>)) \o <<Comma>> \o Entry("c", <<TInt(3)>>)),
      Braced(Entry("encoder", <<TInt(5)>>)),
      Braced(Entry("decoder", <<TOp("["), TInt(1), TOp("]")>>)),
      Braced(<<TInt(0), Colon, TInt(1)>>),
      <<TInt(5)>>,
      <<TOp("["), TInt(1), TOp("]")>>,
      Braced(<<TStr("a"), Comma, TStr("b")>>),
      Braced(Entry("c", <<TName("Linear")>>)) }

\* The default of --optimization_config, line 61: SGD is a name.
RegimeDefault ==
    Braced(<<TInt(0), Colon>>
           \o Braced(Entry("optimizer", <<TName("SGD")>>) \o <<Comma>>
                     \o Entry("lr", <<TFloat("0.1")>>) \o <<Comma>>
                     \o Entry("momentum", <<TFloat("0.9")>>)))

\* {0: {'optimizer': 'SGD', 'lr': 0.1}}
RegimePlain ==
    Braced(<<TInt(0), Colon>>
           \o Braced(Entry("optimizer", <<TStr("SGD")>>) \o <<Comma>>
                     \o Entry("lr", <<TFloat("0.1")>>)))

\* --optimization_config: the default | the plain one | {} | 5 | [0.1] |
\* 'SGD' | {0: {'lr':
RegimeTexts ==
    { RegimeDefault,
      RegimePlain,
      Braced(<<>>),
      <<TInt(5)>>,
      <<TOp("["), TFloat("0.1"), TOp("]")>>,
      <<TStr("SGD")>>,
      <<TOp("{"), TInt(0), Colon, TOp("{"), TStr("lr"), Colon>> }

(***************************************************************************)
(* The command lines and the environments of a run.                        *)
(***************************************************************************)
Epochs == 0..MaxEpochs

ArgsOf(D, C, DC, MC, OC, S, E, EV, R, U) ==
    [devices : D, type_cuda : C, data_config : DC, model_config : MC,
     optimization_config : OC, start_epoch : S, epochs : E, evaluate : EV,
     resume : R, uniform_init : U, results_dir : {"./results"}]

\* The --resume path: not there, a file, a directory without or with a
\* best checkpoint.
FsStates ==
    { [kind |-> "missing", best |-> FALSE], [kind |-> "file", best |-> FALSE],
      [kind |-> "dir", best |-> FALSE], [kind |-> "dir", best |-> TRUE] }

Tokenizers(H) ==
    [src_has_vocab : H, src_vocab : 1..MaxVocab, target_vocab : 1..MaxVocab]

EnvOf(F, L, K, T, G) ==
    [fs : F, load_ok : L, ckpt_epoch : K, tok : T, cuda_ok : G]

PlainFs == {[kind |-> "missing", best |-> FALSE]}

PlainTok == {[src_has_vocab |-> TRUE, src_vocab |-> 1, target_vocab |-> 1]}

\* Runs that differ in the epochs, the checkpoint options and the file system.
RunArgs ==
    ArgsOf({DevicesDefault}, {FALSE}, {DataDefault}, {ModelPlain}, {RegimePlain},
           Epochs, Epochs, {NoneV, StrV(""), StrV("eval.pth")},
           {StrV(""), StrV("run1")}, BOOLEAN)

RunEnvs == EnvOf(FsStates, BOOLEAN, Epochs, PlainTok, {TRUE})

\* Runs that differ in the epochs and in the checkpoint --resume names.
LoopArgs ==
    ArgsOf({DevicesDefault}, {FALSE}, {DataDefault}, {ModelPlain}, {RegimePlain},
           Epochs, Epochs, {NoneV}, {StrV(""), StrV("run1")}, {FALSE})

LoopEnvs ==
    EnvOf({[kind |-> "file", best |-> FALSE]}, {TRUE}, Epochs, PlainTok, {TRUE})

\* Runs that differ in the device specification.
DeviceArgs ==
    ArgsOf(DeviceTexts, BOOLEAN, {DataDefault}, {ModelPlain}, {RegimePlain},
           {0}, {0, 1}, {NoneV}, {StrV("")}, {FALSE})

DeviceEnvs == EnvOf(PlainFs, {TRUE}, {0}, PlainTok, BOOLEAN)

\* Runs that differ in the three configuration texts and the tokenizers.
ConfigArgs ==
    ArgsOf({DevicesDefault}, {FALSE}, DataTexts, ModelTexts, RegimeTexts,
           {0}, {0, 1}, {NoneV}, {StrV("")}, {FALSE})

ConfigEnvs == EnvOf(PlainFs, {TRUE}, {0}, Tokenizers(BOOLEAN), {TRUE})

\* The state when main is entered.
InitWith(A, E) ==
    /\ args \in A
    /\ env \in E
    /\ pc = "save_path"
    /\ error = NoError
    /\ results_dir = args.results_dir
    /\ devices = Unset
    /\ main_gpu = Unset
    /\ data_config = Unset
    /\ regime = Unset
    /\ model_config = Unset
    /\ model_kwargs = Unset
    /\ trainer = [built |-> FALSE, epoch |-> 0, regime |-> Unset,
                  devices |-> Unset]
    /\ calls = <<>>

Init == InitWith(RunArgs, RunEnvs)

InitLoop == InitWith(LoopArgs, LoopEnvs)

InitDevices == InitWith(DeviceArgs, DeviceEnvs)

InitConfig == InitWith(ConfigArgs, ConfigEnvs)

Spec == Init /\ [][Next]_vars

\* main is one thread that runs on: a step of the loop that can be taken is
\* taken, trainer.run returning every time it is called.
FairSpec == InitLoop /\ [][Next]_vars /\ WF_vars(RunEpoch) /\ WF_vars(Finish)

SpecDevices == InitDevices /\ [][Next]_vars

SpecConfig == InitConfig /\ [][Next]_vars

(***************************************************************************)
(* What the properties below speak of.                                     *)
(***************************************************************************)
CallIdx(op) == {i \in 1..Len(calls) : calls[i].op = op}

Called(op) == CallIdx(op) # {}

\* main has left the checkpoint block, by going on or by an exception in it.
PastResume ==
    \/ pc \in {"start_epoch", "loop", "done"}
    \/ pc = "aborted" /\ error.at = "resume"

\* main has left the device block without an exception of the block.
PastCuda ==
    \/ pc \in {"dataset", "config", "model", "trainer", "init_weights",
               "resume", "start_epoch", "loop", "done"}
    \/ pc = "aborted" /\ error.at # "cuda"

\* --resume is the option that selects the checkpoint.
ResumeOnly == ~Truthy(args.evaluate) /\ Truthy(args.resume)

(***************************************************************************)
(* C1: when --resume names an existing checkpoint file and the load        *)
(* succeeds, trainer.epoch at the first call of trainer.run is the epoch   *)
(* of the checkpoint, whatever --start-epoch is.                           *)
(***************************************************************************)
C1_FirstRunAtCheckpointEpoch ==
    (ResumeOnly /\ env.fs.kind = "file" /\ env.load_ok)
        => \A i \in CallIdx("run") :
               (\A j \in CallIdx("run") : i <= j) => calls[i].n = env.ckpt_epoch

(***************************************************************************)
(* C2: when --resume names a directory that holds model_best.pth.tar, main *)
(* calls trainer.load on that file and then reaches the epoch loop; the    *)
(* process does not end before the load.                                   *)
(***************************************************************************)
C2_DirectoryLoadsBest ==
    (ResumeOnly /\ env.fs.kind = "dir" /\ env.fs.best /\ PastResume)
        => /\ \E i \in CallIdx("load") :
                  calls[i].path = Join(PathOf(args.resume), BestName)
           /\ env.load_ok => pc # "aborted"

(***************************************************************************)
(* C3: when the checkpoint of --resume is missing (the path is neither a   *)
(* file nor a directory, or a directory without model_best.pth.tar), main  *)
(* logs the failure, never calls trainer.load, does not abort and enters   *)
(* the loop with trainer.epoch = --start-epoch.                            *)
(***************************************************************************)
C3_MissingCheckpointGoesOn ==
    (/\ ResumeOnly
     /\ env.fs.kind = "missing" \/ (env.fs.kind = "dir" /\ ~env.fs.best)
     /\ PastResume)
        => /\ pc # "aborted"
           /\ Called("log.error")
           /\ ~Called("load")
           /\ (pc = "loop" /\ ~Called("run")) => trainer.epoch = args.start_epoch

(***************************************************************************)
(* C4: with --evaluate FILE the run evaluates only: FILE is loaded and     *)
(* trainer.run is never called, whatever --start-epoch and --epochs are.   *)
(***************************************************************************)
C4_EvaluateNeverTrains ==
    Truthy(args.evaluate)
        => /\ ~Called("run")
           /\ PastResume => \E i \in CallIdx("load") :
                                calls[i].path = PathOf(args.evaluate)

(***************************************************************************)
(* C5: the main device is the first element of a tuple, the value under    *)
(* 'input' of a mapping (0 when the key is absent) and the value itself    *)
(* for a single integer.                                                   *)
(***************************************************************************)
\* The main device the claim gives for the evaluated specification d.
ClaimedMain(g, d) ==
    /\ (d.t = "tuple" /\ Len(d.items) > 0) => g = d.items[1]
    /\ d.t = "dict" =>
          \/ \E i \in 1..Len(d.items) :
                 d.items[i].items[1] = StrV("input") /\ g = d.items[i].items[2]
          \/ /\ \A i \in 1..Len(d.items) : d.items[i].items[1] # StrV("input")
             /\ g = IntV(0)
    /\ d.t = "int" => g = d

\* The three examples: "0,1" gives 0, {'input':1} gives 1, "0" gives 0.
ClaimedExamples(g) ==
    /\ args.devices = <<TInt(0), Comma, TInt(1)>> => g = IntV(0)
    /\ args.devices = Braced(Entry("input", <<TInt(1)>>)) => g = IntV(1)
    /\ args.devices = <<TInt(0)>> => g = IntV(0)

\* C5 as claimed: a main device is derived in every run, whatever --type is.
C5_MainDeviceEveryRun ==
    PastCuda => /\ main_gpu # Unset
                /\ ClaimedMain(main_gpu, devices)
                /\ ClaimedExamples(main_gpu)

\* C5 as amended: a main device is derived in exactly the runs whose --type
\* contains 'cuda', and there it is the one the claim gives; in every other
\* run none is derived and torch.cuda.set_device is not called.
C5_MainDeviceOnCuda ==
    /\ main_gpu # Unset => /\ args.type_cuda
                           /\ ClaimedMain(main_gpu, devices)
                           /\ ClaimedExamples(main_gpu)
    /\ PastCuda => (main_gpu # Unset <=> args.type_cuda)
    /\ ~args.type_cuda => ~Called("set_device")

C5_Witness ==
    /\ pc = "done"
    /\ args.type_cuda
    /\ args.devices = <<TInt(1), Comma, TInt(0)>>
    /\ main_gpu = IntV(1)

(***************************************************************************)
(* C6: every invalid device specification (an index that is no integer, a  *)
(* negative index, an empty tuple, a mapping whose 'input' is no integer,  *)
(* a text that is no literal) ends start-up with an error before the       *)
(* dataset, the model or the trainer is built.                             *)
(***************************************************************************)
BadIndex(v) == v.t # "int" \/ v.n < 0

InvalidDevices(r) ==
    \/ r.err # ""
    \/ r.val.t \in {"str", "float", "None", "list", "set"}
    \/ r.val.t = "int" /\ r.val.n < 0
    \/ r.val.t = "tuple" /\ (Len(r.val.items) = 0
                             \/ \E i \in 1..Len(r.val.items) : BadIndex(r.val.items[i]))
    \/ r.val.t = "dict" /\ \E i \in 1..Len(r.val.items) :
                               /\ r.val.items[i].items[1] = StrV("input")
                               /\ BadIndex(r.val.items[i].items[2])

C6_InvalidDevicesFatal ==
    InvalidDevices(literal_eval(args.devices))
        => ~Called("dataset") /\ ~Called("model") /\ ~Called("trainer")

(***************************************************************************)
(* C7: a --data_config, --model_config or --optimization_config text that  *)
(* is malformed, holds a token that is no literal, or whose value is not a *)
(* mapping makes main fail before the trainer is constructed: the trainer  *)
(* is never built nor run with it, and the regime it is given is a mapping.*)
(***************************************************************************)
BadConfig(r) == r.err # "" \/ r.val.t # "dict"

C7_BadConfigFatal ==
    /\ (\/ BadConfig(literal_eval(args.data_config))
        \/ BadConfig(literal_eval(args.model_config))
        \/ BadConfig(literal_eval(args.optimization_config)))
           => ~trainer.built /\ ~Called("trainer") /\ ~Called("run")
    /\ trainer.built => trainer.regime.t = "dict"

(***************************************************************************)
(* C8: if every trainer.run ends and raises trainer.epoch by one, then for *)
(* start-epoch <= epochs the loop ends with trainer.epoch = epochs after   *)
(* exactly epochs - start-epoch calls of trainer.run, and trainer.run is   *)
(* never called with trainer.epoch >= epochs.                              *)
(***************************************************************************)
C8_LoopRunsToEpochs ==
    /\ []((pc = "done" /\ args.start_epoch <= args.epochs)
            => /\ trainer.epoch = args.epochs
               /\ Cardinality(CallIdx("run")) = args.epochs - args.start_epoch)
    /\ [](\A i \in CallIdx("run") : calls[i].n < args.epochs)
    /\ ((pc = "loop" /\ args.start_epoch <= args.epochs) ~> (pc = "done"))

C8_Witness ==
    /\ pc = "done"
    /\ args.start_epoch = 1
    /\ args.epochs = 3
    /\ Cardinality(CallIdx("run")) = 2
    /\ trainer.epoch = 3

(***************************************************************************)
(* C9: the mapping the model constructor receives has 'encoder' and        *)
(* 'decoder' sub-mappings (an absent one created empty, a present one with *)
(* its entries kept), decoder['vocab_size'] and the top-level 'vocab_size' *)
(* are the target tokenizer's vocabulary size, encoder['vocab_size'] is    *)
(* set only when the source tokenizer reports one, and every other key of  *)
(* the user is unchanged.                                                  *)
(***************************************************************************)
VocabKey == StrV("vocab_size")

\* The evaluated --model_config text.
GivenModel == literal_eval(args.model_config).val

\* The sub-mapping now under key k holds what the user gave under k (nothing
\* when k was absent), but for vocab_size.
SubKept(now, k) ==
    LET given == DictGet(GivenModel, k, DictV(<<>>))
        sub == DictGet(now, k, NoneV)
    IN  /\ DictKeys(sub) \ {VocabKey} = DictKeys(given) \ {VocabKey}
        /\ \A x \in DictKeys(given) \ {VocabKey} :
               DictGet(sub, x, NoneV) = DictGet(given, x, NoneV)

\* encoder['vocab_size'] is set to the source size, and only when the source
\* tokenizer has one: otherwise it is as the user gave it, or absent.
EncoderVocab(now) ==
    LET given == DictGet(GivenModel, StrV("encoder"), DictV(<<>>))
        sub == DictGet(now, StrV("encoder"), NoneV)
    IN  IF env.tok.src_has_vocab
        THEN DictGet(sub, VocabKey, NoneV) = IntV(env.tok.src_vocab)
        ELSE /\ HasKey(sub, VocabKey) <=> HasKey(given, VocabKey)
             /\ DictGet(sub, VocabKey, NoneV) = DictGet(given, VocabKey, NoneV)

\* The decoder, the top-level vocab_size and the other top-level keys.
DecoderAndFrame(now) ==
    /\ DictGet(now, StrV("decoder"), NoneV).t = "dict"
    /\ SubKept(now, StrV("decoder"))
    /\ DictGet(DictGet(now, StrV("decoder"), NoneV), VocabKey, NoneV)
           = IntV(env.tok.target_vocab)
    /\ DictGet(now, VocabKey, NoneV) = IntV(env.tok.target_vocab)
    /\ DictKeys(now)
           = DictKeys(GivenModel) \cup {StrV("encoder"), StrV("decoder"), VocabKey}
    /\ \A k \in DictKeys(GivenModel) \ {StrV("encoder"), StrV("decoder"), VocabKey} :
           DictGet(now, k, NoneV) = DictGet(GivenModel, k, NoneV)

\* C9 as claimed: 'encoder' is always a sub-mapping.
C9_SubMappingsAlways ==
    model_kwargs # Unset
        => /\ DictGet(model_kwargs, StrV("encoder"), NoneV).t = "dict"
           /\ SubKept(model_kwargs, StrV("encoder"))
           /\ EncoderVocab(model_kwargs)
           /\ DecoderAndFrame(model_kwargs)

\* The user gave an 'encoder' that is no mapping and nothing writes into it.
EncoderPassedOn ==
    /\ HasKey(GivenModel, StrV("encoder"))
    /\ DictGet(GivenModel, StrV("encoder"), NoneV).t # "dict"
    /\ ~env.tok.src_has_vocab

\* C9 as amended: as claimed, except that an 'encoder' of the user that is no
\* mapping is passed on as it is when the source tokenizer reports no
\* vocabulary size.
C9_ModelConfigResolved ==
    model_kwargs # Unset
        => /\ IF EncoderPassedOn
              THEN DictGet(model_kwargs, StrV("encoder"), NoneV)
                       = DictGet(GivenModel, StrV("encoder"), NoneV)
              ELSE /\ DictGet(model_kwargs, StrV("encoder"), NoneV).t = "dict"
                   /\ SubKept(model_kwargs, StrV("encoder"))
                   /\ EncoderVocab(model_kwargs)
           /\ DecoderAndFrame(model_kwargs)

C9_Witness ==
    /\ pc = "done"
    /\ args.model_config = ModelFull
    /\ env.tok.src_has_vocab
    /\ env.tok.src_vocab # env.tok.target_vocab
    /\ DictGet(DictGet(model_kwargs, StrV("encoder"), NoneV), StrV("a"), NoneV) = IntV(1)
    /\ DictGet(model_kwargs, VocabKey, NoneV) = IntV(env.tok.target_vocab)

(***************************************************************************)
(* C10: trainer.load is called at most once in a run, after the optional   *)
(* uniform re-initialization of the weights and before the first           *)
(* trainer.run; with --evaluate and --resume both given only the           *)
(* --evaluate file is loaded and the --resume path is neither inspected    *)
(* nor loaded.                                                             *)
(***************************************************************************)
C10_OneLoadInOrder ==
    /\ Cardinality(CallIdx("load")) <= 1
    /\ \A i \in CallIdx("load") :
           /\ \A j \in CallIdx("run") : i < j
           /\ \E j \in CallIdx("trainer") : j < i
           /\ args.uniform_init => \E j \in CallIdx("uniform_") : j < i
           /\ \A j \in CallIdx("uniform_") : j < i
    /\ Truthy(args.evaluate)
           => /\ ~Called("isdir") /\ ~Called("isfile") /\ ~Called("log.error")
              /\ \A i \in CallIdx("load") : calls[i].path = PathOf(args.evaluate)

C10_Witness ==
    /\ pc = "done"
    /\ Truthy(args.evaluate)
    /\ Truthy(args.resume)
    /\ args.uniform_init
    /\ Called("load")
    /\ Called("run")

====
